---- MODULE Spec2Model ----
(***************************************************************************)
(* A model of the canvas particle simulation of src/try_canvas.js: the     *)
(* Particle class, the ParticleSystem class and its event handlers.        *)
(*                                                                         *)
(* Numbers.  Every JavaScript number that holds a length, a velocity or a  *)
(* push force is held as an integer count of quanta, Unit quanta to the    *)
(* pixel.  Every arithmetic operation of the source is carried out on the  *)
(* exact value and rounded to the nearest quantum, as IEEE arithmetic      *)
(* rounds to the nearest double.  The decimal literals of the source       *)
(* (0.55, 4.5, 0.5, 0.1) are held in hundredths.                           *)
(*                                                                         *)
(* Indexes.  this.particles is a sequence: index i of the model is index   *)
(* i - 1 of the source array.                                              *)
(***************************************************************************)
EXTENDS Integers, Sequences, FiniteSets

VARIABLES
    config,        \* the fields of config that createParticles() reads
    canvasWidth,   \* this.canvasWidth, in quanta
    canvasHeight,  \* this.canvasHeight, in quanta
    particles,     \* this.particles
    mouse,         \* this.mouse: [x, y, radius]
    listening,     \* the mousemove and resize listeners are registered
    rafQueue,      \* callbacks pending with requestAnimationFrame
    calls,         \* what the last handler did, in order: phases and draw calls
    frame,         \* number of animate() runs so far
    before,        \* this.particles as the last operation found them
    lastOp,        \* the last operation that ran
    lastEvent      \* position carried by the most recent mousemove event

vars == <<config, canvasWidth, canvasHeight, particles, mouse, listening, rafQueue,
          calls, frame, before, lastOp, lastEvent>>

-----------------------------------------------------------------------------
(* Bounds of the model *)

\* Half the number of quanta to the pixel (Unit is even: 0.5 is a quantum).
HalfUnit == 10
Unit == 2 * HalfUnit

\* Math.random() returns k / RandDen for some k in 0 .. RandDen - 1.
RandDen == 20

\* Number of different random streams a run of createParticles may draw from.
NumSeeds == 3

\* animate() runs at most MaxTicks times from the animation frame queue.
MaxTicks == 3

-----------------------------------------------------------------------------
(* Arithmetic on quanta *)

Abs(a) == IF a < 0 THEN -a ELSE a

Sign(a) == IF a < 0 THEN -1 ELSE IF a > 0 THEN 1 ELSE 0

Max(a, b) == IF a >= b THEN a ELSE b

Min(a, b) == IF a <= b THEN a ELSE b

\* a / b for b > 0, rounded to the nearest integer, halves away from zero.
RoundDiv(a, b) == Sign(a) * ((2 * Abs(a) + b) \div (2 * b))

\* The product of two numbers held in quanta.
Mul(a, b) == RoundDiv(a * b, Unit)

\* The quotient of two numbers held in quanta, b > 0.
Div(a, b) == RoundDiv(a * Unit, b)

\* The product of a number in quanta and a decimal literal in hundredths.
Scale(a, h) == RoundDiv(a * h, 100)

\* Math.floor of a number in quanta.
Floor(a) == (a \div Unit) * Unit

\* The largest r in lo .. hi with r * r <= n, given lo * lo <= n.
RECURSIVE SqrtFloor(_, _, _)
SqrtFloor(n, lo, hi) ==
    IF lo >= hi THEN lo
    ELSE LET mid == (lo + hi + 1) \div 2
         IN  IF mid * mid <= n THEN SqrtFloor(n, mid, hi)
             ELSE SqrtFloor(n, lo, mid - 1)

\* Math.sqrt of an integer, rounded to the nearest integer.
Sqrt(n) ==
    LET r == SqrtFloor(n, 0, 46340)
    IN  IF n - r * r > r THEN r + 1 ELSE r

\* Math.hypot of two numbers in quanta.
Hypot(dx, dy) == Sqrt(dx * dx + dy * dy)

-----------------------------------------------------------------------------
(* config *)

\* Scaled down from the source's 100 to keep the state space finite.
particleBaseCount == 2
\* 4.5, in hundredths.
particleCountLargeScreenFactor == 450
smallScreenWidthThreshold == 600
particleRadiusMin == 1
particleRadiusMax == 11
\* 1.0, in hundredths.
particleVelocityFactor == 100
mouseInteractionRadius == 200
\* 0.55, in hundredths.
particlePushFriction == 55
connectionMaxDistance == 100
connectionMaxPeers == 4
\* 0.5, in hundredths.
connectionOpacityFactor == 50

\* The multiplier 5 of the push force in applyMouseInteraction.
PushStrength == 5

\* The threshold 0.1 of applyMouseInteraction, in hundredths.
DeadZone == 10

\* The factor -0.5 applied to a push component on a collision, in hundredths.
CollisionDamping == -50

\* The fields of config that createParticles() reads, as the source sets them.
SourceConfig ==
    [particleBaseCount |-> particleBaseCount,
     particleCountLargeScreenFactor |-> particleCountLargeScreenFactor]

-----------------------------------------------------------------------------
(* Helper functions *)

Seeds == 0 .. NumSeeds - 1

\* The k-th value (k = 0, 1, ...) Math.random() returns in the stream `seed',
\* as a numerator over RandDen.
Rand(seed, k) == (9 * seed + 7 * k) % RandDen

\* random(min, max) with Math.random() = r / RandDen.
random(min, max, r) == RoundDiv(r * (max - min), RandDen) + min

\* randomInt(min, max) with Math.random() = r / RandDen.
randomInt(min, max, r) == Floor(random(min, max, r))

-----------------------------------------------------------------------------
(* class Particle *)

\* new Particle(canvasWidth, canvasHeight), its five calls of Math.random()
\* being the values k, k + 1, ..., k + 4 of the stream `seed'.
Particle(cw, ch, seed, k) ==
    LET radius == randomInt(particleRadiusMin * Unit, particleRadiusMax * Unit,
                            Rand(seed, k))
    IN  [radius   |-> radius,
         x        |-> random(radius, cw - radius, Rand(seed, k + 1)),
         y        |-> random(radius, ch - radius, Rand(seed, k + 2)),
         vx       |-> Scale(random(-HalfUnit, HalfUnit, Rand(seed, k + 3)),
                            particleVelocityFactor),
         vy       |-> Scale(random(-HalfUnit, HalfUnit, Rand(seed, k + 4)),
                            particleVelocityFactor),
         pushX    |-> 0,
         pushY    |-> 0,
         friction |-> particlePushFriction]

\* Integrate dividing the push by the friction where the source multiplies.
IntegrateDividing(p) ==
    LET px == RoundDiv(p.pushX * 100, p.friction)
        py == RoundDiv(p.pushY * 100, p.friction)
    IN  [p EXCEPT !.pushX = px, !.pushY = py,
                  !.x = p.x + (px + p.vx), !.y = p.y + (py + p.vy)]

\* Integrate with the friction left out of the position update's push.
IntegrateStalePush(p) ==
    [p EXCEPT !.pushX = Scale(p.pushX, p.friction),
              !.pushY = Scale(p.pushY, p.friction),
              !.x = p.x + (p.pushX + p.vx), !.y = p.y + (p.pushY + p.vy)]

\* Integrate without the friction on the push force.
IntegrateUndamped(p) ==
    [p EXCEPT !.x = p.x + (p.pushX + p.vx), !.y = p.y + (p.pushY + p.vy)]

\* Lines 45 to 50: friction on the push force, then the position update.
Integrate(p) ==
    LET px == Scale(p.pushX, p.friction)
        py == Scale(p.pushY, p.friction)
    IN  [p EXCEPT !.pushX = px, !.pushY = py,
                  !.x = p.x + (px + p.vx), !.y = p.y + (py + p.vy)]

\* CollideX damping the velocity as it damps the push.
CollideXDampingVelocity(p, cw) ==
    IF p.x < p.radius
    THEN [p EXCEPT !.x = p.radius, !.vx = Scale(p.vx, CollisionDamping),
                   !.pushX = Scale(p.pushX, CollisionDamping)]
    ELSE IF p.x > cw - p.radius
    THEN [p EXCEPT !.x = cw - p.radius, !.vx = Scale(p.vx, CollisionDamping),
                   !.pushX = Scale(p.pushX, CollisionDamping)]
    ELSE p

\* CollideX with the right wall's test left out.
CollideXLeftOnly(p, cw) ==
    IF p.x < p.radius
    THEN [p EXCEPT !.x = p.radius, !.vx = -p.vx,
                   !.pushX = Scale(p.pushX, CollisionDamping)]
    ELSE p

\* Lines 53 to 61: the collision checks against the left and right walls.
CollideX(p, cw) ==
    IF p.x < p.radius
    THEN [p EXCEPT !.x = p.radius, !.vx = -p.vx,
                   !.pushX = Scale(p.pushX, CollisionDamping)]
    ELSE IF p.x > cw - p.radius
    THEN [p EXCEPT !.x = cw - p.radius, !.vx = -p.vx,
                   !.pushX = Scale(p.pushX, CollisionDamping)]
    ELSE p

\* Lines 62 to 70: the collision checks against the top and bottom walls.
CollideY(p, ch) ==
    IF p.y < p.radius
    THEN [p EXCEPT !.y = p.radius, !.vy = -p.vy,
                   !.pushY = Scale(p.pushY, CollisionDamping)]
    ELSE IF p.y > ch - p.radius
    THEN [p EXCEPT !.y = ch - p.radius, !.vy = -p.vy,
                   !.pushY = Scale(p.pushY, CollisionDamping)]
    ELSE p

\* particle.applyPhysics(canvasWidth, canvasHeight)
applyPhysics(p, cw, ch) == CollideY(CollideX(Integrate(p), cw), ch)

-----------------------------------------------------------------------------
(* class ParticleSystem *)

\* The value of a property that was assigned no number.
undefined == <<>>

\* A property holding the number v.
Num(v) == <<v>>

\* The number a property holds.
Val(prop) == prop[1]

\* One entry of `calls'.
Call(op, a, b, x1, y1, x2, y2, val) ==
    [op |-> op, a |-> a, b |-> b, x1 |-> x1, y1 |-> y1, x2 |-> x2, y2 |-> y2,
     val |-> val]

\* The particles the loop of createParticles pushes from index i on: one more
\* while i < count, count being countH hundredths.
RECURSIVE pushParticles(_, _, _, _, _)
pushParticles(cw, ch, seed, countH, i) ==
    IF i * 100 < countH
    THEN <<Particle(cw, ch, seed, 5 * i)>> \o pushParticles(cw, ch, seed, countH, i + 1)
    ELSE <<>>

\* What createParticles() leaves in this.particles.
createParticles(cw, ch, seed) ==
    LET countH == IF cw > smallScreenWidthThreshold * Unit
                  THEN config.particleBaseCount * config.particleCountLargeScreenFactor
                  ELSE config.particleBaseCount * 100
    IN  pushParticles(cw, ch, seed, countH, 0)

\* OffScreen leaving the mouse on the corner (0, 0) of the canvas.
OffScreenAtOrigin(m) == [m EXCEPT !.x = Num(0), !.y = Num(0)]

\* What createParticles() leaves in this.mouse.
OffScreen(m) ==
    [m EXCEPT !.x = Num(-(mouseInteractionRadius * Unit) * 2),
              !.y = Num(-(mouseInteractionRadius * Unit) * 2)]

\* InField with the threshold 0.1 replaced by 0.
InFieldNoDeadZone(dx, dy, radius) ==
    LET distance == Hypot(dx, dy)
    IN  distance < radius /\ distance > 0

\* Whether applyMouseInteraction's loop changes a particle at the offset
\* (dx, dy) from the mouse.
InField(dx, dy, radius) ==
    LET distance == Hypot(dx, dy)
    IN  distance < radius /\ distance * 100 > DeadZone * Unit

\* PushAway assigning the force where the source adds it.
PushAwayOverwriting(p, m) ==
    LET dx == p.x - Val(m.x)
        dy == p.y - Val(m.y)
        distance == Hypot(dx, dy)
    IN  IF InField(dx, dy, m.radius)
        THEN LET forceDirectionX == Div(dx, distance)
                 forceDirectionY == Div(dy, distance)
                 forceMagnitude == Unit - Div(distance, m.radius)
             IN  [p EXCEPT
                    !.pushX = Mul(Mul(forceDirectionX, forceMagnitude), PushStrength * Unit),
                    !.pushY = Mul(Mul(forceDirectionY, forceMagnitude), PushStrength * Unit)]
        ELSE p

\* The body of applyMouseInteraction's loop for one particle.
PushAway(p, m) ==
    LET dx == p.x - Val(m.x)
        dy == p.y - Val(m.y)
        distance == Hypot(dx, dy)
    IN  IF InField(dx, dy, m.radius)
        THEN LET forceDirectionX == Div(dx, distance)
                 forceDirectionY == Div(dy, distance)
                 forceMagnitude == Unit - Div(distance, m.radius)
             IN  [p EXCEPT
                    !.pushX = p.pushX
                        + Mul(Mul(forceDirectionX, forceMagnitude), PushStrength * Unit),
                    !.pushY = p.pushY
                        + Mul(Mul(forceDirectionY, forceMagnitude), PushStrength * Unit)]
        ELSE p

\* this.particles after applyMouseInteraction().
applyMouseInteraction(ps, m) ==
    IF m.x = undefined \/ m.y = undefined THEN ps
    ELSE [i \in 1 .. Len(ps) |-> PushAway(ps[i], m)]

\* The opacity 1.  An opacity is held as a count of quanta fine enough for
\* (1 - distance / connectionMaxDistance) * connectionOpacityFactor to be held
\* without rounding, distance being a count of quanta of length.
OpacityUnit == connectionMaxDistance * Unit * 100

\* Connection taking the squared distance for the distance.
ConnectionSquared(ps, i, j, distSq) ==
    LET opacity == (connectionMaxDistance * Unit - distSq) * connectionOpacityFactor
    IN  Call("stroke", i, j, ps[i].x, ps[i].y, ps[j].x, ps[j].y,
             Max(0, Min(opacity, OpacityUnit)))

\* The line drawConnections strokes between particles i and j; val is
\* ctx.globalAlpha.
Connection(ps, i, j, distSq) ==
    LET distance == Sqrt(distSq)
        opacity == (connectionMaxDistance * Unit - distance) * connectionOpacityFactor
    IN  Call("stroke", i, j, ps[i].x, ps[i].y, ps[j].x, ps[j].y,
             Max(0, Min(opacity, OpacityUnit)))

\* ScanPeers breaking one connection late.
RECURSIVE ScanPeersOneMore(_, _, _, _)
ScanPeersOneMore(ps, i, j, connections) ==
    IF j > Len(ps) THEN <<>>
    ELSE IF connections > connectionMaxPeers THEN <<>>
    ELSE LET dx == ps[i].x - ps[j].x
             dy == ps[i].y - ps[j].y
             distSq == dx * dx + dy * dy
             maxDistSq == (connectionMaxDistance * Unit) * (connectionMaxDistance * Unit)
         IN  IF distSq < maxDistSq
             THEN <<Connection(ps, i, j, distSq)>>
                  \o ScanPeersOneMore(ps, i, j + 1, connections + 1)
             ELSE ScanPeersOneMore(ps, i, j + 1, connections)

\* ScanPeers without the break.
RECURSIVE ScanPeersUncapped(_, _, _, _)
ScanPeersUncapped(ps, i, j, connections) ==
    IF j > Len(ps) THEN <<>>
    ELSE LET dx == ps[i].x - ps[j].x
             dy == ps[i].y - ps[j].y
             distSq == dx * dx + dy * dy
             maxDistSq == (connectionMaxDistance * Unit) * (connectionMaxDistance * Unit)
         IN  IF distSq < maxDistSq
             THEN <<Connection(ps, i, j, distSq)>>
                  \o ScanPeersUncapped(ps, i, j + 1, connections + 1)
             ELSE ScanPeersUncapped(ps, i, j + 1, connections)

\* The lines the inner loop of drawConnections strokes for p1 = ps[i] from j
\* on, `connections' of them stroked before.
RECURSIVE ScanPeers(_, _, _, _)
ScanPeers(ps, i, j, connections) ==
    IF j > Len(ps) THEN <<>>
    ELSE IF connections >= connectionMaxPeers THEN <<>>
    ELSE LET dx == ps[i].x - ps[j].x
             dy == ps[i].y - ps[j].y
             distSq == dx * dx + dy * dy
             maxDistSq == (connectionMaxDistance * Unit) * (connectionMaxDistance * Unit)
         IN  IF distSq < maxDistSq
             THEN <<Connection(ps, i, j, distSq)>>
                  \o ScanPeers(ps, i, j + 1, connections + 1)
             ELSE ScanPeers(ps, i, j + 1, connections)

\* ScanSources with the inner loop starting at the first particle, not at
\* i + 1.
RECURSIVE ScanSourcesAllPeers(_, _)
ScanSourcesAllPeers(ps, i) ==
    IF i > Len(ps) THEN <<>>
    ELSE ScanPeers(ps, i, 1, 0) \o ScanSourcesAllPeers(ps, i + 1)

\* ScanSources with a cap that counts the lines at both ends: the count of
\* particle i starts at the number of earlier particles close to it.
RECURSIVE ScanSourcesSymmetric(_, _)
ScanSourcesSymmetric(ps, i) ==
    IF i > Len(ps) THEN <<>>
    ELSE LET maxDistSq == (connectionMaxDistance * Unit) * (connectionMaxDistance * Unit)
             inbound == {k \in 1 .. i - 1 :
                            (ps[k].x - ps[i].x) * (ps[k].x - ps[i].x)
                              + (ps[k].y - ps[i].y) * (ps[k].y - ps[i].y) < maxDistSq}
         IN  ScanPeers(ps, i, i + 1, Cardinality(inbound))
             \o ScanSourcesSymmetric(ps, i + 1)

\* The lines the outer loop of drawConnections strokes from i on.
RECURSIVE ScanSources(_, _)
ScanSources(ps, i) ==
    IF i > Len(ps) THEN <<>>
    ELSE ScanPeers(ps, i, i + 1, 0) \o ScanSources(ps, i + 1)

\* drawConnections comparing the squared distance with the distance allowed.
RECURSIVE ScanUnsquared(_, _, _)
ScanUnsquared(ps, i, j) ==
    IF i > Len(ps) THEN <<>>
    ELSE IF j > Len(ps) THEN ScanUnsquared(ps, i + 1, i + 2)
    ELSE LET dx == ps[i].x - ps[j].x
             dy == ps[i].y - ps[j].y
             distSq == dx * dx + dy * dy
         IN  IF distSq < connectionMaxDistance * Unit
             THEN <<Connection(ps, i, j, distSq)>> \o ScanUnsquared(ps, i, j + 1)
             ELSE ScanUnsquared(ps, i, j + 1)

drawConnectionsUnsquared(ps) == ScanUnsquared(ps, 1, 2)

\* The lines drawConnections() strokes, in order.
drawConnections(ps) == ScanSources(ps, 1)

\* Frame with the connections computed for the particles as they are before
\* applyPhysics() moves them.
FrameStaleConnections(ps, m, cw, ch) ==
    LET pushed == applyMouseInteraction(ps, m)
        moved == [i \in 1 .. Len(ps) |-> applyPhysics(pushed[i], cw, ch)]
        interaction ==
            IF m.x = undefined \/ m.y = undefined THEN <<>>
            ELSE [i \in 1 .. Len(ps) |->
                    Call("applyMouseInteraction", i, 0, 0, 0, 0, 0, 0)]
        physics == [i \in 1 .. Len(ps) |-> Call("applyPhysics", i, 0, 0, 0, 0, 0, 0)]
        fills == [i \in 1 .. Len(ps) |->
                    Call("fill", i, 0, moved[i].x, moved[i].y, 0, 0, moved[i].radius)]
    IN  [moved |-> moved,
         calls |-> <<Call("clearRect", 0, 0, 0, 0, cw, ch, 0)>>
                   \o interaction \o physics \o drawConnections(pushed) \o fills
                   \o <<Call("requestAnimationFrame", 0, 0, 0, 0, 0, 0, 0)>>]

\* Frame with the circles filled before the connections are stroked.
FrameFillsFirst(ps, m, cw, ch) ==
    LET pushed == applyMouseInteraction(ps, m)
        moved == [i \in 1 .. Len(ps) |-> applyPhysics(pushed[i], cw, ch)]
        interaction ==
            IF m.x = undefined \/ m.y = undefined THEN <<>>
            ELSE [i \in 1 .. Len(ps) |->
                    Call("applyMouseInteraction", i, 0, 0, 0, 0, 0, 0)]
        physics == [i \in 1 .. Len(ps) |-> Call("applyPhysics", i, 0, 0, 0, 0, 0, 0)]
        fills == [i \in 1 .. Len(ps) |->
                    Call("fill", i, 0, moved[i].x, moved[i].y, 0, 0, moved[i].radius)]
    IN  [moved |-> moved,
         calls |-> <<Call("clearRect", 0, 0, 0, 0, cw, ch, 0)>>
                   \o interaction \o physics \o fills \o drawConnections(moved)
                   \o <<Call("requestAnimationFrame", 0, 0, 0, 0, 0, 0, 0)>>]

\* What one run of animate() does to this.particles (moved) and the calls it
\* makes, in order (calls).
Frame(ps, m, cw, ch) ==
    LET pushed == applyMouseInteraction(ps, m)
        moved == [i \in 1 .. Len(ps) |-> applyPhysics(pushed[i], cw, ch)]
        interaction ==
            IF m.x = undefined \/ m.y = undefined THEN <<>>
            ELSE [i \in 1 .. Len(ps) |->
                    Call("applyMouseInteraction", i, 0, 0, 0, 0, 0, 0)]
        physics == [i \in 1 .. Len(ps) |-> Call("applyPhysics", i, 0, 0, 0, 0, 0, 0)]
        fills == [i \in 1 .. Len(ps) |->
                    Call("fill", i, 0, moved[i].x, moved[i].y, 0, 0, moved[i].radius)]
    IN  [moved |-> moved,
         calls |-> <<Call("clearRect", 0, 0, 0, 0, cw, ch, 0)>>
                   \o interaction \o physics \o drawConnections(moved) \o fills
                   \o <<Call("requestAnimationFrame", 0, 0, 0, 0, 0, 0, 0)>>]

-----------------------------------------------------------------------------
(* The host: window sizes and pointer positions, in pixels *)

\* window.innerWidth and window.innerHeight.
WindowSizes == {<<16, 16>>, <<40, 30>>, <<640, 30>>}

\* event.clientX and event.clientY of a mousemove event.
ClientPoints == {<<1, 1>>, <<10, 29>>, <<250, 1>>}

-----------------------------------------------------------------------------
(* The system *)

\* The fields as the constructor has assigned them when it calls init().
\* The canvas element was found: without it the constructor returns and
\* registers nothing.
Init ==
    /\ config = SourceConfig
    /\ canvasWidth = 0
    /\ canvasHeight = 0
    /\ particles = <<>>
    /\ mouse = [x |-> undefined, y |-> undefined,
                radius |-> mouseInteractionRadius * Unit]
    /\ listening = FALSE
    /\ rafQueue = 0
    /\ calls = <<>>
    /\ frame = 0
    /\ before = <<>>
    /\ lastOp = "new"
    /\ lastEvent = <<>>

\* init(): handleResize(), setupEventListeners(), animate().
init ==
    /\ lastOp = "new"
    /\ \E size \in WindowSizes, seed \in Seeds :
          LET cw == size[1] * Unit
              ch == size[2] * Unit
              created == createParticles(cw, ch, seed)
              m == OffScreen(mouse)
              f == Frame(created, m, cw, ch)
          IN  /\ canvasWidth' = cw
              /\ canvasHeight' = ch
              /\ mouse' = m
              /\ before' = created
              /\ particles' = f.moved
              /\ calls' = f.calls
    /\ listening' = TRUE
    /\ rafQueue' = rafQueue + 1
    /\ frame' = frame + 1
    /\ lastOp' = "init"
    /\ UNCHANGED <<config, lastEvent>>

\* handleMouseMove(event)
handleMouseMove ==
    /\ listening
    /\ \E at \in ClientPoints :
          /\ at[1] * Unit < canvasWidth
          /\ at[2] * Unit < canvasHeight
          /\ mouse' = [mouse EXCEPT !.x = Num(at[1] * Unit), !.y = Num(at[2] * Unit)]
          /\ lastEvent' = <<at[1] * Unit, at[2] * Unit>>
    /\ before' = particles
    /\ calls' = <<>>
    /\ lastOp' = "handleMouseMove"
    /\ UNCHANGED <<config, canvasWidth, canvasHeight, particles, listening, rafQueue, frame>>

\* handleResize with a createParticles() that does not empty this.particles
\* before it pushes the new ones.
handleResizeKeeping ==
    /\ listening
    /\ \E size \in WindowSizes, seed \in Seeds :
          /\ canvasWidth' = size[1] * Unit
          /\ canvasHeight' = size[2] * Unit
          /\ particles' = particles \o createParticles(size[1] * Unit, size[2] * Unit, seed)
    /\ mouse' = OffScreen(mouse)
    /\ before' = particles
    /\ calls' = <<>>
    /\ lastOp' = "handleResize"
    /\ UNCHANGED <<config, listening, rafQueue, frame, lastEvent>>

\* handleResize calling animate() after it has created the particles, as
\* init() does.
handleResizeAnimating ==
    /\ listening
    /\ \E size \in WindowSizes, seed \in Seeds :
          LET cw == size[1] * Unit
              ch == size[2] * Unit
              f == Frame(createParticles(cw, ch, seed), OffScreen(mouse), cw, ch)
          IN  /\ canvasWidth' = cw
              /\ canvasHeight' = ch
              /\ particles' = f.moved
              /\ calls' = f.calls
    /\ mouse' = OffScreen(mouse)
    /\ before' = particles
    /\ rafQueue' = rafQueue + 1
    /\ lastOp' = "handleResize"
    /\ UNCHANGED <<config, listening, frame, lastEvent>>

\* handleResize(), called for a resize event.
handleResize ==
    /\ listening
    /\ \E size \in WindowSizes, seed \in Seeds :
          /\ canvasWidth' = size[1] * Unit
          /\ canvasHeight' = size[2] * Unit
          /\ particles' = createParticles(size[1] * Unit, size[2] * Unit, seed)
    /\ mouse' = OffScreen(mouse)
    /\ before' = particles
    /\ calls' = <<>>
    /\ lastOp' = "handleResize"
    /\ UNCHANGED <<config, listening, rafQueue, frame, lastEvent>>

\* animate(), called from the animation frame queue.
animate ==
    /\ rafQueue > 0
    /\ frame < MaxTicks
    /\ LET f == Frame(particles, mouse, canvasWidth, canvasHeight)
       IN  /\ particles' = f.moved
           /\ calls' = f.calls
    /\ rafQueue' = (rafQueue - 1) + 1
    /\ frame' = frame + 1
    /\ before' = particles
    /\ lastOp' = "animate"
    /\ UNCHANGED <<config, canvasWidth, canvasHeight, mouse, listening, lastEvent>>

Next == init \/ handleMouseMove \/ handleResize \/ animate

Spec == Init /\ [][Next]_vars

-----------------------------------------------------------------------------
(* The operations one at a time, on inputs drawn from bounded sets *)

\* Most particles of a sparse layout.
SparseN == 5

\* Most particles of a dense layout.
DenseN == 10

\* The extents the single operations are given, in pixels.
OpWidth == 100
OpHeight == 60

\* A particle at rest at (x, y) pixels, of radius 1.
Resting(x, y) ==
    [radius |-> Unit, x |-> x * Unit, y |-> y * Unit, vx |-> 0, vy |-> 0,
     pushX |-> 0, pushY |-> 0, friction |-> particlePushFriction]

\* Sparse layouts: (0,0)-(60,80) is at connectionMaxDistance exactly,
\* (0,0)-(99,0) is one pixel closer.
SparsePoints == {<<0, 0>>, <<10, 0>>, <<200, 0>>, <<60, 80>>, <<99, 0>>}

\* Dense layouts: every pair is closer than connectionMaxDistance.
DensePoints == {<<0, 0>>, <<10, 0>>}

\* A hub layout: five particles farther than connectionMaxDistance from each
\* other, then a particle closer than connectionMaxDistance to each of them,
\* then connectionMaxPeers particles next to that one.
HubLayout ==
    <<Resting(190, 100), Resting(128, 186), Resting(27, 153), Resting(27, 47),
      Resting(128, 14), Resting(100, 100)>>
    \o [k \in 1 .. connectionMaxPeers |-> Resting(100, 101)]

Layouts(points, most) ==
    UNION {[1 .. n -> {Resting(pt[1], pt[2]) : pt \in points}] : n \in 0 .. most}

\* The largest whole number of quanta that is at most
\* friction * 5 / (1 - friction), the push at which the friction of one step
\* takes away what the strongest force adds.
MaxPush ==
    (particlePushFriction * PushStrength * Unit) \div (100 - particlePushFriction)

\* Single particles, in and out of bounds, moving and pushed; in quanta.
Movers ==
    [radius   : {Unit, 3 * Unit},
     x        : {0, Unit, 50 * Unit, (OpWidth - 1) * Unit, OpWidth * Unit},
     y        : {0, 30 * Unit, OpHeight * Unit},
     vx       : {-2 * Unit, 0, HalfUnit},
     vy       : {0, Unit},
     pushX    : {-MaxPush, -4 * Unit, 0, 7, 4 * Unit, MaxPush},
     pushY    : {0, 3},
     friction : {particlePushFriction}]

\* Pointer positions around a particle at (50, 30) pixels; in quanta.
Pointers ==
    {<<50 * Unit, 30 * Unit>>,
     <<50 * Unit + Unit \div 10, 30 * Unit>>,
     <<50 * Unit + Unit \div 10 + 1, 30 * Unit>>,
     <<150 * Unit, 30 * Unit>>,
     <<110 * Unit, 110 * Unit>>,
     <<250 * Unit, 30 * Unit>>,
     <<250 * Unit - 1, 30 * Unit>>}

\* this.mouse of the constructor, then possibly moved.
Mice ==
    LET m == [x |-> undefined, y |-> undefined,
              radius |-> mouseInteractionRadius * Unit]
    IN  {m, OffScreen(m)}
        \cup {[m EXCEPT !.x = Num(at[1]), !.y = Num(at[2])] : at \in Pointers}

\* Largest particleBaseCount createParticles() is given.
MaxBaseCount == 4

\* Values of config.particleBaseCount and, in hundredths, of
\* config.particleCountLargeScreenFactor (1.0, 1.25, 4.5).
BaseCounts == 0 .. MaxBaseCount
LargeScreenFactors == {100, 125, particleCountLargeScreenFactor}

\* The configs createParticles() is given.
Configs ==
    [particleBaseCount : BaseCounts,
     particleCountLargeScreenFactor : LargeScreenFactors]

\* Widths on both sides of smallScreenWidthThreshold, in pixels.
OpWidths == {smallScreenWidthThreshold, smallScreenWidthThreshold + 1}

InitOp ==
    /\ canvasHeight = OpHeight * Unit
    /\ \/ /\ particles \in Layouts(SparsePoints, SparseN) \cup Layouts(DensePoints, DenseN)
                           \cup {HubLayout}
          /\ mouse \in {m \in Mice : m.x = undefined}
          /\ config = SourceConfig
          /\ canvasWidth = OpWidth * Unit
       \/ /\ particles \in {<<p>> : p \in Movers}
          /\ mouse \in Mice
          /\ config = SourceConfig
          /\ canvasWidth = OpWidth * Unit
       \/ /\ particles = <<>>
          /\ mouse \in {m \in Mice : m.x = undefined}
          /\ config \in Configs
          /\ canvasWidth \in {w * Unit : w \in OpWidths}
    /\ listening = FALSE
    /\ rafQueue = 0
    /\ calls = <<>>
    /\ frame = 0
    /\ before = <<>>
    /\ lastOp = "input"
    /\ lastEvent = <<>>

\* applyMouseInteraction() on the input.
OpMouseInteraction ==
    /\ lastOp = "input"
    /\ particles' = applyMouseInteraction(particles, mouse)
    /\ before' = particles
    /\ lastOp' = "applyMouseInteraction"
    /\ UNCHANGED <<config, canvasWidth, canvasHeight, mouse, listening, rafQueue, calls,
                   frame, lastEvent>>

\* applyPhysics() on every particle of the input.
OpPhysics ==
    /\ lastOp = "input"
    /\ particles' = [i \in 1 .. Len(particles) |->
                        applyPhysics(particles[i], canvasWidth, canvasHeight)]
    /\ before' = particles
    /\ lastOp' = "applyPhysics"
    /\ UNCHANGED <<config, canvasWidth, canvasHeight, mouse, listening, rafQueue, calls,
                   frame, lastEvent>>

\* drawConnections() on the input.
OpConnections ==
    /\ lastOp = "input"
    /\ calls' = drawConnections(particles)
    /\ before' = particles
    /\ lastOp' = "drawConnections"
    /\ UNCHANGED <<config, canvasWidth, canvasHeight, particles, mouse, listening, rafQueue,
                   frame, lastEvent>>

\* animate() on the input.
OpAnimate ==
    /\ lastOp = "input"
    /\ LET f == Frame(particles, mouse, canvasWidth, canvasHeight)
       IN  /\ particles' = f.moved
           /\ calls' = f.calls
    /\ rafQueue' = rafQueue + 1
    /\ frame' = frame + 1
    /\ before' = particles
    /\ lastOp' = "animate"
    /\ UNCHANGED <<config, canvasWidth, canvasHeight, mouse, listening, lastEvent>>

\* createParticles() on the input.
OpCreateParticles ==
    /\ lastOp = "input"
    /\ \E seed \in Seeds :
          particles' = createParticles(canvasWidth, canvasHeight, seed)
    /\ mouse' = OffScreen(mouse)
    /\ before' = particles
    /\ lastOp' = "createParticles"
    /\ UNCHANGED <<config, canvasWidth, canvasHeight, listening, rafQueue, calls,
                   frame, lastEvent>>

NextOp ==
    \/ OpMouseInteraction \/ OpPhysics \/ OpConnections
    \/ OpCreateParticles \/ OpAnimate

OpSpec == InitOp /\ [][NextOp]_vars

-----------------------------------------------------------------------------
(* Properties *)

\* The operations that run one whole animation step.
TickOps == {"init", "animate"}

\* The position of p lies within the walls of a canvas of extents cw, ch.
InBounds(p, cw, ch) ==
    /\ p.radius <= p.x /\ p.x <= cw - p.radius
    /\ p.radius <= p.y /\ p.y <= ch - p.radius

\* C1: in every state (each follows a creation of the particles or an
\* integration step, pointer events changing no particle), every particle whose
\* radius is less than half of each current extent has
\* radius <= x <= W - radius and radius <= y <= H - radius.
C1_PositionBounds ==
    \A i \in 1 .. Len(particles) :
        (2 * particles[i].radius < canvasWidth /\ 2 * particles[i].radius < canvasHeight)
        => InBounds(particles[i], canvasWidth, canvasHeight)

\* A step of animate() has just put a pushed particle back onto the right wall.
C1_Witness ==
    /\ lastOp = "animate"
    /\ \E i \in 1 .. Len(particles) :
          /\ 2 * particles[i].radius < canvasWidth
          /\ 2 * particles[i].radius < canvasHeight
          /\ particles[i].x = canvasWidth - particles[i].radius
          /\ before[i].x < canvasWidth - before[i].radius
          /\ particles[i].pushX # 0
          /\ particles[i].vx = -before[i].vx

\* The force field adds nothing to particle p with the pointer state m.
NoContribution(p, m) ==
    \/ m.x = undefined
    \/ m.y = undefined
    \/ LET d == Hypot(p.x - Val(m.x), p.y - Val(m.y))
       IN  d >= m.radius \/ d * 100 <= 10 * Unit

\* C2: after a step of animate() in which the force field added nothing to a
\* particle, each component of its push accumulator, and the accumulator's
\* magnitude, is no larger than before the step, wall hit or not.
C2_PushNonIncreasing ==
    lastOp \in TickOps =>
        \A i \in 1 .. Len(particles) :
            NoContribution(before[i], mouse) =>
                /\ Abs(particles[i].pushX) <= Abs(before[i].pushX)
                /\ Abs(particles[i].pushY) <= Abs(before[i].pushY)
                /\ particles[i].pushX * particles[i].pushX
                     + particles[i].pushY * particles[i].pushY
                   <= before[i].pushX * before[i].pushX
                        + before[i].pushY * before[i].pushY

\* A pushed particle the force field left alone has hit a wall in the step.
C2_Witness ==
    /\ lastOp = "animate"
    /\ \E i \in 1 .. Len(particles) :
          /\ NoContribution(before[i], mouse)
          /\ before[i].pushX # 0
          /\ particles[i].pushX # 0
          /\ Sign(particles[i].pushX) # Sign(before[i].pushX)
          /\ particles[i].vx # 0
          /\ particles[i].vx = -before[i].vx

\* C3: applyPhysics decays the push, moves the particle, and then on each axis
\* independently: below radius, the coordinate becomes radius, the velocity is
\* negated and the push is multiplied by -0.5; else above extent - radius, the
\* coordinate becomes extent - radius with the same reflection; else all three
\* stay as integrated.  A particle at x = radius - 1 with vx = -2 and no push
\* ends at x = radius with vx = +2.
C3_BoundaryResponse ==
    lastOp = "applyPhysics" =>
        \A i \in 1 .. Len(particles) :
            LET b == before[i]
                a == particles[i]
                px == Scale(b.pushX, b.friction)
                py == Scale(b.pushY, b.friction)
                ix == b.x + px + b.vx
                iy == b.y + py + b.vy
            IN  /\ ix < b.radius =>
                      a.x = b.radius /\ a.vx = -b.vx /\ 2 * a.pushX \in {-px - 1, -px, -px + 1}
                /\ (ix >= b.radius /\ ix > canvasWidth - b.radius) =>
                      a.x = canvasWidth - b.radius /\ a.vx = -b.vx
                      /\ 2 * a.pushX \in {-px - 1, -px, -px + 1}
                /\ (ix >= b.radius /\ ix <= canvasWidth - b.radius) =>
                      a.x = ix /\ a.vx = b.vx /\ a.pushX = px
                /\ iy < b.radius =>
                      a.y = b.radius /\ a.vy = -b.vy /\ 2 * a.pushY \in {-py - 1, -py, -py + 1}
                /\ (iy >= b.radius /\ iy > canvasHeight - b.radius) =>
                      a.y = canvasHeight - b.radius /\ a.vy = -b.vy
                      /\ 2 * a.pushY \in {-py - 1, -py, -py + 1}
                /\ (iy >= b.radius /\ iy <= canvasHeight - b.radius) =>
                      a.y = iy /\ a.vy = b.vy /\ a.pushY = py
                /\ a.radius = b.radius /\ a.friction = b.friction
                /\ (b.x = b.radius - Unit /\ b.vx = -2 * Unit /\ b.pushX = 0) =>
                      a.x = b.radius /\ a.vx = 2 * Unit

\* applyPhysics has run on a particle at x = radius - 1 with vx = -2, no push.
C3_Witness ==
    /\ lastOp = "applyPhysics"
    /\ Len(particles) = 1
    /\ before[1].x = before[1].radius - Unit
    /\ before[1].vx = -2 * Unit
    /\ before[1].pushX = 0
    /\ before[1].pushY # 0
    /\ particles[1].x = particles[1].radius
    /\ particles[1].vx = 2 * Unit
    /\ particles[1].y = canvasHeight - particles[1].radius

\* The distance applyMouseInteraction computes between particle p and pointer m.
Distance(p, m) == Hypot(p.x - Val(m.x), p.y - Val(m.y))

\* C4: applyMouseInteraction changes no particle's position, velocity or
\* radius, and leaves the push accumulator of every particle at a distance
\* d >= influence radius or d <= 0.1 from the pointer as it was.
C4_ForceFieldGuards ==
    lastOp = "applyMouseInteraction" =>
        /\ Len(particles) = Len(before)
        /\ \A i \in 1 .. Len(particles) :
              /\ particles[i].x = before[i].x /\ particles[i].y = before[i].y
              /\ particles[i].vx = before[i].vx /\ particles[i].vy = before[i].vy
              /\ particles[i].radius = before[i].radius
              /\ (mouse.x # undefined /\ mouse.y # undefined
                  /\ (\/ Distance(before[i], mouse) >= mouse.radius
                      \/ Distance(before[i], mouse) * 100 <= 10 * Unit))
                 => /\ particles[i].pushX = before[i].pushX
                    /\ particles[i].pushY = before[i].pushY

\* applyMouseInteraction has run on a pushed particle 0.1 away from the pointer.
C4_Witness ==
    /\ lastOp = "applyMouseInteraction"
    /\ mouse.x # undefined
    /\ Len(particles) = 1
    /\ Distance(before[1], mouse) > 0
    /\ Distance(before[1], mouse) * 100 = 10 * Unit
    /\ before[1].pushX # 0
    /\ particles[1].pushX = before[1].pushX

\* C5: for a particle at distance 0.1 < d < influence radius from the pointer,
\* applyMouseInteraction adds to the push accumulator, once, the vector
\* ((Q - P) / d) * (1 - d / influenceRadius) * 5, which points away from the
\* pointer; at d = influenceRadius / 2 the factor (1 - d / influenceRadius) * 5
\* is exactly 2.5.
C5_ForceFieldContribution ==
    lastOp = "applyMouseInteraction" =>
        \A i \in 1 .. Len(particles) :
            (mouse.x # undefined /\ mouse.y # undefined
             /\ Distance(before[i], mouse) < mouse.radius
             /\ Distance(before[i], mouse) * 100 > 10 * Unit)
            => LET d == Distance(before[i], mouse)
                   dx == before[i].x - Val(mouse.x)
                   dy == before[i].y - Val(mouse.y)
                   falloff == Unit - RoundDiv(d * Unit, mouse.radius)
                   addX == 5 * RoundDiv(RoundDiv(dx * Unit, d) * falloff, Unit)
                   addY == 5 * RoundDiv(RoundDiv(dy * Unit, d) * falloff, Unit)
               IN  /\ particles[i].pushX = before[i].pushX + addX
                   /\ particles[i].pushY = before[i].pushY + addY
                   /\ addX * dx >= 0 /\ addY * dy >= 0
                   /\ 2 * d = mouse.radius => 2 * (5 * falloff) = 5 * Unit

\* applyMouseInteraction has pushed an already pushed particle at half the
\* influence radius, off both axes.
C5_Witness ==
    /\ lastOp = "applyMouseInteraction"
    /\ mouse.x # undefined
    /\ Len(particles) = 1
    /\ 2 * Distance(before[1], mouse) = mouse.radius
    /\ before[1].pushX # 0 /\ before[1].pushY # 0
    /\ before[1].x # Val(mouse.x) /\ before[1].y # Val(mouse.y)
    /\ particles[1].pushX # before[1].pushX
    /\ particles[1].pushY # before[1].pushY

\* Particles i and j of ps are strictly closer than connectionMaxDistance.
Close(ps, i, j) ==
    (ps[i].x - ps[j].x) * (ps[i].x - ps[j].x) + (ps[i].y - ps[j].y) * (ps[i].y - ps[j].y)
        < (connectionMaxDistance * Unit) * (connectionMaxDistance * Unit)

\* The later particles strictly closer than connectionMaxDistance to particle i.
Near(ps, i) == {j \in i + 1 .. Len(ps) : Close(ps, i, j)}

\* The positions in `calls' of the lines stroked from particle i.
Emitted(i) == {k \in 1 .. Len(calls) : calls[k].op = "stroke" /\ calls[k].a = i}

\* The particles those lines end at.
Peers(i) == {calls[k].b : k \in Emitted(i)}

\* Every two particles of ps are strictly closer than connectionMaxDistance.
AllClose(ps) == \A i \in 1 .. Len(ps) : \A j \in i + 1 .. Len(ps) : Close(ps, i, j)

\* C6: one run of drawConnections strokes, from every particle i, exactly
\* min(connectionMaxPeers, number of later particles strictly closer than
\* connectionMaxDistance) lines, to the first such particles in ascending
\* order; with more than connectionMaxPeers particles all close to each other
\* the first particle is the source of exactly connectionMaxPeers lines.
C6_PeerCap ==
    lastOp = "drawConnections" =>
        /\ \A i \in 1 .. Len(particles) :
              /\ Cardinality(Emitted(i))
                   = Min(connectionMaxPeers, Cardinality(Near(particles, i)))
              /\ Cardinality(Peers(i)) = Cardinality(Emitted(i))
              /\ Peers(i) \subseteq Near(particles, i)
              /\ \A j \in Peers(i) : \A l \in Near(particles, i) \ Peers(i) : j < l
        /\ (Len(particles) >= connectionMaxPeers + 1 /\ AllClose(particles))
              => Cardinality(Emitted(1)) = connectionMaxPeers

\* drawConnections has run on particles all close to each other, the first
\* with more than connectionMaxPeers later particles.
C6_Witness ==
    /\ lastOp = "drawConnections"
    /\ Len(particles) >= connectionMaxPeers + 2
    /\ AllClose(particles)
    /\ Cardinality(Near(particles, 1)) > connectionMaxPeers
    /\ Peers(1) = 2 .. connectionMaxPeers + 1

\* C7: one run of drawConnections strokes at most N * connectionMaxPeers lines,
\* N being the number of particles.
C7_EdgeCountBound ==
    lastOp = "drawConnections" =>
        Len(calls) <= Len(particles) * connectionMaxPeers

\* drawConnections has run on particles all close to each other, with more
\* pairs than N * connectionMaxPeers.
C7_Witness ==
    /\ lastOp = "drawConnections"
    /\ AllClose(particles)
    /\ Len(particles) * (Len(particles) - 1) > 2 * Len(particles) * connectionMaxPeers
    /\ Len(calls) > 0

\* The particles of the end-to-end example: (0,0), (10,0), (200,0), radius 1.
Example == <<Resting(0, 0), Resting(10, 0), Resting(200, 0)>>

\* C8: for the particles (0,0), (10,0), (200,0) of radius 1, drawConnections
\* strokes exactly one line, from (0,0) to (10,0), and none from or to the
\* particle at (200,0).
C8_EndToEndExample ==
    (lastOp = "drawConnections" /\ particles = Example) =>
        /\ Len(calls) = 1
        /\ calls[1].op = "stroke"
        /\ calls[1].a = 1 /\ calls[1].b = 2
        /\ calls[1].x1 = 0 /\ calls[1].y1 = 0
        /\ calls[1].x2 = 10 * Unit /\ calls[1].y2 = 0
        /\ \A k \in 1 .. Len(calls) : calls[k].a # 3 /\ calls[k].b # 3

\* drawConnections has run on the particles of the example.
C8_Witness ==
    /\ lastOp = "drawConnections"
    /\ particles = Example
    /\ Len(calls) = 1

\* The place of a call in the order of animate().
PhaseRank(op) ==
    CASE op = "clearRect" -> 1
      [] op = "applyMouseInteraction" -> 2
      [] op = "applyPhysics" -> 3
      [] op = "stroke" -> 4
      [] op = "fill" -> 5
      [] op = "requestAnimationFrame" -> 6

\* The number of calls `op' made for particle i.
Count(op, i) == Cardinality({k \in 1 .. Len(calls) : calls[k].op = op /\ calls[k].a = i})

\* C9: every run of animate() clears the frame once, first; then applies the
\* force field to every particle; then integrates every particle; then strokes
\* the connections; then fills every particle's circle; and last requests the
\* next frame, once.
C9_FrameOrder ==
    lastOp \in TickOps =>
        /\ \A k \in 1 .. Len(calls) - 1 :
              PhaseRank(calls[k].op) <= PhaseRank(calls[k + 1].op)
        /\ calls[1].op = "clearRect"
        /\ Count("clearRect", 0) = 1
        /\ calls[Len(calls)].op = "requestAnimationFrame"
        /\ Count("requestAnimationFrame", 0) = 1
        /\ \A i \in 1 .. Len(particles) :
              /\ Count("applyMouseInteraction", i) = 1
              /\ Count("applyPhysics", i) = 1
              /\ Count("fill", i) = 1
        /\ Len(calls) = 2 + 3 * Len(particles)
                          + Cardinality({k \in 1 .. Len(calls) : calls[k].op = "stroke"})

\* A run of animate() from the frame queue has stroked a connection.
C9_Witness ==
    /\ lastOp = "animate"
    /\ Len(particles) >= 2
    /\ \E k \in 1 .. Len(calls) : calls[k].op = "stroke"

\* The pointer state m holds no position a pointer event carried: it is
\* undefined, or off the screen where createParticles puts it.
Absent(m) == m.x = undefined \/ m.y = undefined \/ m = OffScreen(m)

\* C10: this.mouse is absent until the first mousemove event, and from then on
\* holds the position the most recent mousemove event carried.
C10_PointerHoldsLastEvent ==
    IF lastEvent = <<>>
    THEN Absent(mouse)
    ELSE mouse.x = Num(lastEvent[1]) /\ mouse.y = Num(lastEvent[2])

\* C11: while no mousemove event has been delivered, the force field changes
\* no particle: every run of animate() leaves applyMouseInteraction without
\* effect on the particles it finds, and every push accumulator is (0, 0),
\* also for particles within the interaction radius of the corner (0, 0).
C11_NoForceBeforeFirstEvent ==
    lastEvent = <<>> =>
        /\ \A i \in 1 .. Len(particles) :
              particles[i].pushX = 0 /\ particles[i].pushY = 0
        /\ lastOp \in TickOps => applyMouseInteraction(before, mouse) = before

\* animate() has run from the frame queue before any mousemove event, on an
\* in-bounds particle closer to the corner (0, 0) than the interaction radius.
C11_Witness ==
    /\ lastOp = "animate"
    /\ lastEvent = <<>>
    /\ \E i \in 1 .. Len(before) :
          /\ InBounds(before[i], canvasWidth, canvasHeight)
          /\ Hypot(before[i].x, before[i].y) * 10 < mouse.radius

\* C12: runs of animate() form one chain.  No callback is pending before
\* init(); from init() on exactly one is pending in every state between two
\* handlers; a run of animate() calls requestAnimationFrame once, as its last
\* call; a mousemove or resize handler calls nothing of animate() and leaves
\* the number of runs and of pending callbacks as it found them.
C12_SingleTickChain ==
    /\ lastOp = "new" => rafQueue = 0 /\ frame = 0
    /\ lastOp # "new" => rafQueue = 1 /\ frame >= 1
    /\ lastOp \in TickOps =>
          /\ calls # <<>>
          /\ calls[Len(calls)].op = "requestAnimationFrame"
          /\ Count("requestAnimationFrame", 0) = 1
    /\ lastOp \in {"handleMouseMove", "handleResize"} =>
          \A k \in 1 .. Len(calls) :
              calls[k].op \notin {"requestAnimationFrame", "clearRect",
                                  "applyPhysics", "stroke", "fill"}

\* A resize event has been handled between two runs of animate(), after a
\* mousemove event and at least two runs, and one callback is pending.
C12_Witness ==
    /\ lastOp = "handleResize"
    /\ lastEvent # <<>>
    /\ frame >= 2
    /\ frame < MaxTicks
    /\ rafQueue = 1

\* The extents are those of a window of the host, and ps is what
\* createParticles() builds for them from one stream of Math.random().
FreshlyCreated(ps) ==
    /\ \E size \in WindowSizes :
          canvasWidth = size[1] * Unit /\ canvasHeight = size[2] * Unit
    /\ \E seed \in Seeds : ps = createParticles(canvasWidth, canvasHeight, seed)

C14_CountRule ==
    lastOp = "createParticles" =>
        Len(particles) =
            IF canvasWidth <= smallScreenWidthThreshold * Unit
            THEN config.particleBaseCount
            ELSE (config.particleBaseCount * config.particleCountLargeScreenFactor)
                     \div 100

\* C15: one run of drawConnections strokes only lines from a particle i to a
\* later particle j (i < j, so never from a particle to itself), at most one
\* line for each pair, only for pairs whose squared distance is strictly less
\* than connectionMaxDistance squared, each from the position of i to the
\* position of j, and in ascending order of (i, j); with no particles it
\* strokes nothing.
C15_GraphEnumeration ==
    lastOp = "drawConnections" =>
        /\ \A k \in 1 .. Len(calls) :
              /\ calls[k].op = "stroke"
              /\ calls[k].a \in 1 .. Len(particles)
              /\ calls[k].b \in 1 .. Len(particles)
              /\ calls[k].a < calls[k].b
              /\ Close(particles, calls[k].a, calls[k].b)
              /\ calls[k].x1 = particles[calls[k].a].x
              /\ calls[k].y1 = particles[calls[k].a].y
              /\ calls[k].x2 = particles[calls[k].b].x
              /\ calls[k].y2 = particles[calls[k].b].y
        /\ \A k \in 1 .. Len(calls) : \A l \in k + 1 .. Len(calls) :
              /\ {calls[k].a, calls[k].b} # {calls[l].a, calls[l].b}
              /\ \/ calls[k].a < calls[l].a
                 \/ calls[k].a = calls[l].a /\ calls[k].b < calls[l].b
        /\ particles = <<>> => calls = <<>>

\* drawConnections has run on particles of which two are at
\* connectionMaxDistance exactly, and has stroked lines from two particles,
\* two of them from the same one.
C15_Witness ==
    /\ lastOp = "drawConnections"
    /\ \E i \in 1 .. Len(particles) : \E j \in i + 1 .. Len(particles) :
          /\ ~Close(particles, i, j)
          /\ (particles[i].x - particles[j].x) * (particles[i].x - particles[j].x)
               + (particles[i].y - particles[j].y) * (particles[i].y - particles[j].y)
               = (connectionMaxDistance * Unit) * (connectionMaxDistance * Unit)
    /\ \E k \in 1 .. Len(calls) : \E l \in k + 1 .. Len(calls) :
          calls[k].a # calls[l].a
    /\ \E i \in 1 .. Len(particles) : Cardinality(Emitted(i)) >= 2

\* The positions in `calls' of the lines stroked to particle i.
Inbound(i) == {k \in 1 .. Len(calls) : calls[k].op = "stroke" /\ calls[k].b = i}

\* C16: the cap of drawConnections counts a line only at the particle it is
\* stroked from.  No particle is the source of more than connectionMaxPeers
\* lines; a line to a close later particle j is stroked whenever its source
\* has stroked fewer than connectionMaxPeers lines before, whatever the number
\* of lines that already end at j; so among N particles all close to each
\* other, particle j has min(j - 1, connectionMaxPeers) lines stroked to it
\* besides the min(N - j, connectionMaxPeers) stroked from it, which is more
\* than connectionMaxPeers in total in some arrangements.
C16_AsymmetricCap ==
    lastOp = "drawConnections" =>
        /\ \A i \in 1 .. Len(particles) :
              /\ Cardinality(Emitted(i)) <= connectionMaxPeers
              /\ \A j \in Near(particles, i) :
                    Cardinality({l \in Near(particles, i) : l < j}) < connectionMaxPeers
                    => j \in Peers(i)
        /\ AllClose(particles) =>
              \A j \in 1 .. Len(particles) :
                  /\ Cardinality(Inbound(j)) = Min(j - 1, connectionMaxPeers)
                  /\ Cardinality(Emitted(j))
                       = Min(Len(particles) - j, connectionMaxPeers)

\* drawConnections has run on an arrangement in which one particle has lines
\* stroked to it from more than connectionMaxPeers earlier particles and is
\* itself the source of connectionMaxPeers lines.
C16_Witness ==
    /\ lastOp = "drawConnections"
    /\ \E j \in 1 .. Len(particles) :
          /\ Cardinality(Inbound(j)) > connectionMaxPeers
          /\ Cardinality(Emitted(j)) = connectionMaxPeers
          /\ Cardinality(Inbound(j)) + Cardinality(Emitted(j)) > 2 * connectionMaxPeers

\* The distance of particles i and j of ps as drawConnections computes it.
Apart(ps, i, j) ==
    Sqrt((ps[i].x - ps[j].x) * (ps[i].x - ps[j].x)
         + (ps[i].y - ps[j].y) * (ps[i].y - ps[j].y))

\* C17: every line drawConnections strokes has the opacity
\* clamp((1 - distance / connectionMaxDistance) * connectionOpacityFactor, 0, 1),
\* distance being the distance of its two particles; the opacity lies in
\* [0, 1], and with connectionOpacityFactor = 0.5 in (0, 0.5], 0.5 being the
\* opacity of a line between two particles at the same position.
C17_EdgeOpacity ==
    \A k \in 1 .. Len(calls) :
        calls[k].op = "stroke" =>
            LET distance == Apart(particles, calls[k].a, calls[k].b)
                \* 1 - distance / connectionMaxDistance, in quanta of length
                \* over connectionMaxDistance
                fade == connectionMaxDistance * Unit - distance
                opacity == fade * connectionOpacityFactor
            IN  /\ calls[k].val = Max(0, Min(opacity, OpacityUnit))
                /\ 0 <= calls[k].val /\ calls[k].val <= OpacityUnit
                /\ connectionOpacityFactor = 50 =>
                      /\ 0 < calls[k].val
                      /\ 2 * calls[k].val <= OpacityUnit
                      /\ (2 * calls[k].val = OpacityUnit) <=> (distance = 0)

\* drawConnections has stroked a line between two particles at the same
\* position, a line between two particles one pixel closer than
\* connectionMaxDistance, and a line of an opacity in between.
C17_Witness ==
    /\ lastOp = "drawConnections"
    /\ \E k \in 1 .. Len(calls) : 2 * calls[k].val = OpacityUnit
    /\ \E k \in 1 .. Len(calls) :
          /\ Apart(particles, calls[k].a, calls[k].b) = (connectionMaxDistance - 1) * Unit
          /\ 0 < calls[k].val
          /\ 200 * calls[k].val = OpacityUnit
    /\ \E k \in 1 .. Len(calls) :
          /\ 200 * calls[k].val > OpacityUnit
          /\ 2 * calls[k].val < OpacityUnit

\* The positions in `calls' of the circles filled for particle i.
Filled(i) == {k \in 1 .. Len(calls) : calls[k].op = "fill" /\ calls[k].a = i}

\* C18: drawConnections() and draw() change no particle: after a run of
\* animate() the particles are what applyMouseInteraction() and applyPhysics()
\* made of those it found; each line stroked in the run starts and ends at
\* the centre of a circle filled in the same run, and the centre and radius
\* of each circle are those of its particle after applyPhysics().
C18_SinglePositionSet ==
    lastOp \in TickOps =>
        LET pushed == applyMouseInteraction(before, mouse)
        IN  /\ Len(particles) = Len(before)
            /\ \A i \in 1 .. Len(particles) :
                  /\ particles[i] = applyPhysics(pushed[i], canvasWidth, canvasHeight)
                  /\ \A k \in Filled(i) :
                        /\ calls[k].x1 = particles[i].x
                        /\ calls[k].y1 = particles[i].y
                        /\ calls[k].val = particles[i].radius
            /\ \A k \in 1 .. Len(calls) :
                  calls[k].op = "stroke" =>
                      /\ \E l \in Filled(calls[k].a) :
                            calls[l].x1 = calls[k].x1 /\ calls[l].y1 = calls[k].y1
                      /\ \E l \in Filled(calls[k].b) :
                            calls[l].x1 = calls[k].x2 /\ calls[l].y1 = calls[k].y2
                      /\ calls[k].x1 = particles[calls[k].a].x
                      /\ calls[k].y1 = particles[calls[k].a].y
                      /\ calls[k].x2 = particles[calls[k].b].x
                      /\ calls[k].y2 = particles[calls[k].b].y

\* A run of animate() from the frame queue has stroked a line between two
\* particles that applyPhysics() had moved in that run, one of them pushed by
\* the mouse.
C18_Witness ==
    /\ lastOp = "animate"
    /\ \E k \in 1 .. Len(calls) :
          /\ calls[k].op = "stroke"
          /\ particles[calls[k].a].x # before[calls[k].a].x
          /\ particles[calls[k].b].y # before[calls[k].b].y
          /\ \/ particles[calls[k].a].pushX # 0
             \/ particles[calls[k].b].pushX # 0

\* applyPhysics() finds p beyond a wall of the x axis (resp. y axis) after it
\* has moved it.
HitsX(p, cw) ==
    LET q == Integrate(p) IN q.x < q.radius \/ q.x > cw - q.radius
HitsY(p, ch) ==
    LET q == Integrate(p) IN q.y < q.radius \/ q.y > ch - q.radius

\* C19: a run of animate() leaves |vx| and |vy| of every particle as they
\* were: vx (resp. vy) is negated when applyPhysics() finds the particle beyond
\* a wall of that axis, and is unchanged otherwise; applyMouseInteraction()
\* changes neither, and a mousemove event changes no particle.
C19_BaseVelocityKept ==
    /\ lastOp \in TickOps =>
          LET pushed == applyMouseInteraction(before, mouse)
          IN  /\ Len(particles) = Len(before)
              /\ \A i \in 1 .. Len(particles) :
                    /\ pushed[i].vx = before[i].vx
                    /\ pushed[i].vy = before[i].vy
                    /\ Abs(particles[i].vx) = Abs(before[i].vx)
                    /\ Abs(particles[i].vy) = Abs(before[i].vy)
                    /\ particles[i].vx = IF HitsX(pushed[i], canvasWidth)
                                         THEN -before[i].vx ELSE before[i].vx
                    /\ particles[i].vy = IF HitsY(pushed[i], canvasHeight)
                                         THEN -before[i].vy ELSE before[i].vy
    /\ lastOp = "handleMouseMove" => particles = before

\* A run of animate() from the frame queue has pushed a particle with the
\* mouse and turned it back at a wall of the x axis, its vy unchanged, while
\* another particle kept its vx.
C19_Witness ==
    /\ lastOp = "animate"
    /\ \E i \in 1 .. Len(particles) :
          /\ before[i].vx # 0
          /\ particles[i].vx = -before[i].vx
          /\ particles[i].vy = before[i].vy
          /\ before[i].vy # 0
          /\ particles[i].pushX # 0
    /\ \E i \in 1 .. Len(particles) :
          /\ before[i].vx # 0
          /\ particles[i].vx = before[i].vx

\* The push of p is no larger than friction * 5 / (1 - friction):
\* (1 - friction)^2 * |push|^2 <= (friction * 5)^2.
WithinPushBound(p) ==
    (100 - p.friction) * (100 - p.friction) * (p.pushX * p.pushX + p.pushY * p.pushY)
        <= (p.friction * PushStrength * Unit) * (p.friction * PushStrength * Unit)

\* C20: a run of animate() on particles whose push is at most
\* friction * 5 / (1 - friction), about 6.11, leaves every particle with a
\* push of at most that, wherever the mouse is; the push is (0, 0) at creation,
\* so it is at most that after every run.
C20_PushBounded ==
    (/\ lastOp \in TickOps
     /\ \A i \in 1 .. Len(before) : WithinPushBound(before[i]))
    => \A i \in 1 .. Len(particles) : WithinPushBound(particles[i])

\* animate() has run on a particle whose push was the largest within the
\* bound, with the mouse so close that the force added more than 4.5 to it, and
\* the push is again the largest within the bound.
C20_Witness ==
    /\ lastOp = "animate"
    /\ Len(before) = 1
    /\ before[1].pushX = -MaxPush
    /\ mouse.x # undefined
    /\ 10 * (PushAway(before[1], mouse).pushX - before[1].pushX)
         < -(9 * HalfUnit * PushStrength)
    /\ particles[1].pushX = -MaxPush
    /\ WithinPushBound(particles[1])

====
